---- MODULE Spec2Model ----
(***************************************************************************)
(* Model of serializeToImage.py: ImgHandler, a cursor that serializes      *)
(* integers, strings, lists and objects into the colour channels of a      *)
(* pixel surface, three bytes per pixel.                                    *)
(*                                                                         *)
(* Python integers are unbounded, and the 32 and 64 bit encodings exceed    *)
(* the integers of the model checker, so a Python int is modelled as a      *)
(* sign and a magnitude in base 256 (most significant digit first, no       *)
(* leading zero).  A byte, a channel value, a code point and a cursor       *)
(* position are small and stay plain naturals.                             *)
(***************************************************************************)
EXTENDS Integers, Sequences, FiniteSets, TLC

(***************************************************************************)
(* Python int arithmetic                                                   *)
(***************************************************************************)
RECURSIVE Strip(_)
Strip(s) == IF s = <<>> THEN <<>> ELSE IF Head(s) = 0 THEN Strip(Tail(s)) ELSE s

\* the Python int with the given sign and base-256 digits
PyInt(neg, digits) ==
    LET m == Strip(digits) IN [neg |-> neg /\ m # <<>>, mag |-> m]

Zero == PyInt(FALSE, <<>>)
One  == PyInt(FALSE, <<1>>)

\* digit k (k = 0 is the least significant) of a magnitude
Digit(mag, k) == IF k < Len(mag) THEN mag[Len(mag) - k] ELSE 0

RECURSIVE MagAddFrom(_, _, _, _)
MagAddFrom(a, b, k, carry) ==
    IF k >= Len(a) /\ k >= Len(b) /\ carry = 0 THEN <<>>
    ELSE LET s == Digit(a, k) + Digit(b, k) + carry
         IN  MagAddFrom(a, b, k + 1, s \div 256) \o <<s % 256>>

\* a - b on magnitudes, for a >= b
RECURSIVE MagSubFrom(_, _, _, _)
MagSubFrom(a, b, k, borrow) ==
    IF k >= Len(a) THEN <<>>
    ELSE LET d == Digit(a, k) - Digit(b, k) - borrow
         IN  MagSubFrom(a, b, k + 1, IF d < 0 THEN 1 ELSE 0) \o <<(d + 256) % 256>>

RECURSIVE LexGE(_, _)
LexGE(a, b) ==
    IF a = <<>> THEN TRUE
    ELSE IF Head(a) # Head(b) THEN Head(a) > Head(b)
    ELSE LexGE(Tail(a), Tail(b))

MagGE(a, b) == Len(a) > Len(b) \/ (Len(a) = Len(b) /\ LexGE(a, b))

Neg(a) == PyInt(~a.neg, a.mag)

Add(a, b) ==
    IF a.neg = b.neg THEN PyInt(a.neg, MagAddFrom(a.mag, b.mag, 0, 0))
    ELSE IF MagGE(a.mag, b.mag) THEN PyInt(a.neg, MagSubFrom(a.mag, b.mag, 0, 0))
    ELSE PyInt(b.neg, MagSubFrom(b.mag, a.mag, 0, 0))

Sub(a, b) == Add(a, Neg(b))

\* a >= b
GE(a, b) == ~Sub(a, b).neg

\* bool * a
BoolTimes(bool, a) == IF bool THEN a ELSE Zero

\* a << 8
Shl8(a) == PyInt(a.neg, a.mag \o <<0>>)

\* (val >> bits) & 255 for bits a multiple of 8: the byte at that position
\* of the infinite two's complement form of val (of -m, the complement of
\* m - 1)
ShrAnd255(val, bits) ==
    LET k == bits \div 8
        lowZero == \A j \in 0..(k - 1) : Digit(val.mag, j) = 0
    IN  IF ~val.neg THEN Digit(val.mag, k)
        ELSE 255 - (IF lowZero THEN (Digit(val.mag, k) + 255) % 256
                               ELSE Digit(val.mag, k))

\* a Python int from a small natural (len(), a byte): digits of n
RECURSIVE NatDigits(_)
NatDigits(n) == IF n = 0 THEN <<>> ELSE NatDigits(n \div 256) \o <<n % 256>>

FromNat(n) == PyInt(FALSE, NatDigits(n))

I32MAX == PyInt(FALSE, <<127, 255, 255, 255>>)
U32MAX == PyInt(FALSE, <<255, 255, 255, 255>>)
I64MAX == PyInt(FALSE, <<127, 255, 255, 255, 255, 255, 255, 255>>)
U64MAX == PyInt(FALSE, <<255, 255, 255, 255, 255, 255, 255, 255>>)


(***************************************************************************)
(* Values and declared types                                               *)
(***************************************************************************)
IntV(i)   == [k |-> "int",  v |-> i]
StrV(s)   == [k |-> "str",  v |-> s]       \* s: sequence of code points
ListV(l)  == [k |-> "list", v |-> l]       \* l: sequence of values
ByteV(b)  == [k |-> "byte", v |-> b]
NoneV     == [k |-> "None", v |-> 0]

\* an instance of Player_Example: x, y, health are ints, name a string
Player_Example(x, y, health, name) ==
    [k |-> "Player_Example", v |-> [x |-> x, y |-> y, health |-> health, name |-> name]]

IntT     == <<"int">>
StrT     == <<"str">>
ListT(e) == <<"list", e>>                  \* list[e], a GenericAlias
PlayerT  == <<"Player_Example">>

(***************************************************************************)
(* The surface: ImgSurface as the pygame Surface implements it.  A pixel   *)
(* is a triple of channels; get_at and set_at raise IndexError outside the *)
(* surface, and assigning a channel outside 0..255 to the colour get_at    *)
(* returned raises ValueError.                                             *)
(***************************************************************************)
NewSurface(width, height, fill) ==
    [pos \in (0..(width - 1)) \X (0..(height - 1)) |-> fill]

get_width(surf)  == Cardinality({pos[1] : pos \in DOMAIN surf})
get_height(surf) == Cardinality({pos[2] : pos \in DOMAIN surf})

InSurface(surf, pos) == pos \in DOMAIN surf
get_at(surf, pos) == surf[pos]
set_at(surf, pos, pixel) == [surf EXCEPT ![pos] = pixel]

ChannelOK(b) == b \in 0..255
\* variant: the pixel is rebuilt from the byte alone
SetItem_fresh(color, i, b) == [j \in 1..Len(color) |-> IF j = i + 1 THEN b ELSE 0]
SetItem(color, i, b) == [color EXCEPT ![i + 1] = b]

(***************************************************************************)
(* ImgHandler.  A handler in a call is the record                          *)
(*   surface, next_byte, w, h : the object's fields                        *)
(*   exc   : the exception the call has raised, "none" while it runs       *)
(*   calls : the get_at / set_at calls the call has made on the surface    *)
(* Once exc is set the rest of the call is skipped, as the exception       *)
(* propagates through the loops of the writers and readers.                *)
(***************************************************************************)
Call(fn, pos, ch, color) == [fn |-> fn, pos |-> pos, ch |-> ch, color |-> color]

ImgHandler(surf) ==
    [next_byte |-> 0, w |-> get_width(surf), h |-> get_height(surf)]

Enter(handler, surf) ==
    [surface |-> surf, next_byte |-> handler.next_byte, w |-> handler.w,
     h |-> handler.h, exc |-> "none", calls |-> <<>>]

Raise(hd, e) == [hd EXCEPT !.exc = e]

\* color = get_at((x, y)); color[b_pos] = b; set_at((x, y), color); next_byte += 1
store(hd, b, x, y, b_pos, color) ==
    IF ~ChannelOK(b) THEN Raise(hd, "ValueError")
    ELSE [hd EXCEPT
            !.surface = set_at(@, <<x, y>>, SetItem(color, b_pos, b)),
            !.calls = Append(@, Call("set_at", <<x, y>>, b_pos, SetItem(color, b_pos, b))),
            !.next_byte = @ + 1]

write_pixel(hd, b, x, y, b_pos) ==
    IF ~InSurface(hd.surface, <<x, y>>)
    THEN Raise([hd EXCEPT !.calls = Append(@, Call("get_at", <<x, y>>, b_pos, <<>>))],
               "IndexError")
    ELSE store([hd EXCEPT !.calls = Append(@, Call("get_at", <<x, y>>, b_pos,
                                                    get_at(hd.surface, <<x, y>>)))],
               b, x, y, b_pos, get_at(hd.surface, <<x, y>>))

\* variant: the row is taken modulo the height, so the cursor wraps to the top
write_next_byte_wrap(hd, b) ==
    IF hd.exc # "none" THEN hd
    ELSE write_pixel(hd, b, (hd.next_byte \div 3) % hd.w,
                     ((hd.next_byte \div 3) \div hd.w) % hd.h, hd.next_byte % 3)

\* variant: pixels are taken column by column
write_next_byte_columns(hd, b) ==
    IF hd.exc # "none" THEN hd
    ELSE write_pixel(hd, b, (hd.next_byte \div 3) \div hd.h, (hd.next_byte \div 3) % hd.h,
                     hd.next_byte % 3)

write_next_byte(hd, b) ==
    IF hd.exc # "none" THEN hd
    ELSE write_pixel(hd, b, (hd.next_byte \div 3) % hd.w, (hd.next_byte \div 3) \div hd.w,
                     hd.next_byte % 3)

\* variant: least significant byte first
RECURSIVE write_int_bytes_le(_, _, _, _)
write_int_bytes_le(hd, val, size, byte_pos) ==
    IF byte_pos >= size THEN hd
    ELSE write_int_bytes_le(write_next_byte(hd, ShrAnd255(val, byte_pos * 8)),
                            val, size, byte_pos + 1)

\* variant: the integer is written only if all of its bytes fit
RECURSIVE write_int_bytes_atomic(_, _, _, _)
write_int_bytes_atomic(hd, val, size, byte_pos) ==
    IF byte_pos >= size THEN hd
    ELSE IF byte_pos = 0 /\ hd.exc = "none"
            /\ 3 * Cardinality(DOMAIN hd.surface) - hd.next_byte < size
         THEN Raise(hd, "IndexError")
    ELSE write_int_bytes_atomic(
            write_next_byte(hd, ShrAnd255(val, ((size - 1) - byte_pos) * 8)),
            val, size, byte_pos + 1)

RECURSIVE write_int_bytes(_, _, _, _)
write_int_bytes(hd, val, size, byte_pos) ==
    IF byte_pos >= size THEN hd
    ELSE write_int_bytes(
            write_next_byte(hd, ShrAnd255(val, ((size - 1) - byte_pos) * 8)),
            val, size, byte_pos + 1)

write_next_i32(hd, val) == write_int_bytes(hd, val, 4, 0)

write_next_i64(hd, val) == write_int_bytes(hd, val, 8, 0)

RECURSIVE write_chars(_, _)
write_chars(hd, chars) ==
    IF chars = <<>> THEN hd
    ELSE write_chars(write_next_byte(hd, Head(chars)), Tail(chars))

\* variant: the length is written as a 32-bit integer
write_next_string_i32(hd, val) ==
    write_chars(write_next_i32(hd, FromNat(Len(val))), val)

write_next_string(hd, val) ==
    write_chars(write_next_i64(hd, FromNat(Len(val))), val)

\* Player_Example.img_serialize
img_serialize(obj, hd) ==
    write_next_string(
        write_next_i32(write_next_i32(write_next_i32(hd, obj.v.x), obj.v.y), obj.v.health),
        obj.v.name)

write_next_object(hd, cls) == img_serialize(cls, hd)

RECURSIVE write_next(_, _)
RECURSIVE write_items(_, _)
write_items(hd, items) ==
    IF items = <<>> THEN hd
    ELSE write_items(write_next(hd, Head(items)), Tail(items))

\* variant: the length is written as a 32-bit integer
write_next_list_i32(hd, val) ==
    write_items(write_next_i32(hd, FromNat(Len(val))), val)

write_next_list(hd, val) ==
    write_items(write_next_i64(hd, FromNat(Len(val))), val)

\* variant: integers take the 32-bit width
write_next_narrow(hd, val) ==
    IF val.k = "int" THEN write_next_i32(hd, val.v)
    ELSE IF val.k = "str" THEN write_next_string(hd, val.v)
    ELSE IF val.k = "list" THEN write_next_list(hd, val.v)
    ELSE write_next_object(hd, val)

write_next(hd, val) ==
    IF val.k = "int" THEN write_next_i64(hd, val.v)
    ELSE IF val.k = "str" THEN write_next_string(hd, val.v)
    ELSE IF val.k = "list" THEN write_next_list(hd, val.v)
    ELSE write_next_object(hd, val)

\* readers return the handler and the value read
Ret(hd, val) == [hd |-> hd, val |-> val]

\* color = get_at((x, y)); next_byte += 1; return color[b_pos]
read_pixel(hd, x, y, b_pos) ==
    IF ~InSurface(hd.surface, <<x, y>>)
    THEN Ret(Raise([hd EXCEPT !.calls = Append(@, Call("get_at", <<x, y>>, b_pos, <<>>))],
                   "IndexError"), 0)
    ELSE Ret([hd EXCEPT !.calls = Append(@, Call("get_at", <<x, y>>, b_pos,
                                                  get_at(hd.surface, <<x, y>>))),
                        !.next_byte = @ + 1],
             get_at(hd.surface, <<x, y>>)[b_pos + 1])

read_next_byte(hd) ==
    IF hd.exc # "none" THEN Ret(hd, 0)
    ELSE read_pixel(hd, (hd.next_byte \div 3) % hd.w, (hd.next_byte \div 3) \div hd.w,
                    hd.next_byte % 3)

\* The number of times the body of "for _ in range(size)" can start when
\* every completed iteration reads at least one byte: size itself, but no more
\* than the bytes left on the surface plus one, as the iteration after the last
\* byte raises.
BytesLeft(hd) == 3 * Cardinality(DOMAIN hd.surface) - hd.next_byte

RECURSIVE MagNat(_)
MagNat(mag) == IF mag = <<>> THEN 0 ELSE 256 * MagNat(SubSeq(mag, 1, Len(mag) - 1)) + mag[Len(mag)]

Iterations(hd, size) ==
    IF ~GE(size, One) THEN 0
    ELSE IF GE(size, FromNat(BytesLeft(hd) + 1)) THEN BytesLeft(hd) + 1
    ELSE MagNat(size.mag)

\* the generator: the bytes it yields until it is exhausted or raises
\* (n iterations, evaluated as the first half followed by the second half)
Joined(a, b) == Ret(b.hd, a.val \o b.val)
One_(r) == Ret(r.hd, IF r.hd.exc = "none" THEN <<r.val>> ELSE <<>>)

RECURSIVE read_bytes_from(_, _)
read_bytes_then(a, n) == Joined(a, read_bytes_from(a.hd, n))
read_bytes_from(hd, n) ==
    IF hd.exc # "none" \/ n = 0 THEN Ret(hd, <<>>)
    ELSE IF n = 1 THEN One_(read_next_byte(hd))
    ELSE read_bytes_then(read_bytes_from(hd, n \div 2), n - (n \div 2))

read_next_bytes(hd, size) == read_bytes_from(hd, Iterations(hd, size))

\* for byte in bytes: output = output << 8; output += byte
RECURSIVE Accumulate(_, _)
Accumulate(output, bytes) ==
    IF bytes = <<>> THEN output
    ELSE Accumulate(Add(Shl8(output), FromNat(Head(bytes))), Tail(bytes))

\* output - ((output >= max) * (umax + 1))
Signed(output, max, umax) == Sub(output, BoolTimes(GE(output, max), Add(umax, One)))

i32_of(r) == Ret(r.hd, Signed(Accumulate(Zero, r.val), I32MAX, U32MAX))
read_next_i32(hd) == i32_of(read_next_bytes(hd, FromNat(4)))

i64_of(r) == Ret(r.hd, Signed(Accumulate(Zero, r.val), I64MAX, U64MAX))
read_next_i64(hd) == i64_of(read_next_bytes(hd, FromNat(8)))

string_of(size) == read_next_bytes(size.hd, size.val)
read_next_string(hd) == string_of(read_next_i64(hd))

\* Player_Example.img_deserialize
inst_of(x, y, health, name) ==
    Ret(name.hd, Player_Example(x.val, y.val, health.val, name.val))
read_name(x, y, health) == inst_of(x, y, health, read_next_string(health.hd))
read_health(x, y) == read_name(x, y, read_next_i32(y.hd))
read_y(x) == read_health(x, read_next_i32(x.hd))
img_deserialize(hd) == read_y(read_next_i32(hd))

read_next_object(hd, cls) == img_deserialize(hd)

IntRet(r)  == Ret(r.hd, IntV(r.val))
StrRet(r)  == Ret(r.hd, StrV(r.val))
ListRet(r) == Ret(r.hd, ListV(r.val))
ByteRet(r) == Ret(r.hd, ByteV(r.val))

RECURSIVE read_next(_, _)
RECURSIVE read_items(_, _, _)
read_items_then(a, inner_typ, n) == Joined(a, read_items(a.hd, inner_typ, n))
read_items(hd, inner_typ, n) ==
    IF hd.exc # "none" \/ n = 0 THEN Ret(hd, <<>>)
    ELSE IF n = 1 THEN One_(read_next(hd, inner_typ))
    ELSE read_items_then(read_items(hd, inner_typ, n \div 2), inner_typ, n - (n \div 2))

items_of(size, inner_typ) == read_items(size.hd, inner_typ, Iterations(size.hd, size.val))
read_next_list(hd, inner_typ) == items_of(read_next_i64(hd), inner_typ)

read_next(hd, typ) ==
    IF typ = IntT THEN IntRet(read_next_i64(hd))
    ELSE IF typ = StrT THEN StrRet(read_next_string(hd))
    ELSE IF typ[1] = "list" THEN ListRet(read_next_list(hd, typ[2]))
    ELSE read_next_object(hd, typ)

(***************************************************************************)
(* The program, as the module's own usage runs it: a surface is created    *)
(* and filled, a handler writes to it and saves it to a file; the file is  *)
(* loaded as an image and a second handler reads the image back.  Each     *)
(* action is one call of a public method of ImgHandler, or the load.       *)
(***************************************************************************)
VARIABLES
    surface,      \* win: the pixels of the surface written to
    handle,       \* the writing handler: next_byte, w, h
    file,         \* the pixels saved by save_file, <<>> before
    img,          \* the pixels of the loaded image, <<>> before the load
    img_handle,   \* the reading handler: next_byte, w, h
    pc,           \* "write", then "saved" after save_file, then "read" after the load
    last,         \* the most recent call: method, arguments, state before, outcome
    written,      \* history: the values whose write completed, with their byte ranges
    readlog,      \* history: the calls made on img_handle, with their outcomes
    ops,          \* history: per handler, how many byte operations have completed
    nwrites,      \* number of calls made on handle
    nreads,       \* number of calls made on img_handle
    inputs        \* the application: surface size, the data it serializes, call budget

vars == <<surface, handle, file, img, img_handle, pc, last, written, readlog, ops,
          nwrites, nreads, inputs>>

LastCall(who, op, val, typ, start, surf, hd, result) ==
    [who |-> who, op |-> op, val |-> val, typ |-> typ, start |-> start,
     surface0 |-> surf, exc |-> hd.exc, calls |-> hd.calls,
     result |-> IF hd.exc = "none" THEN result ELSE NoneV]

NoCall ==
    [who |-> "none", op |-> "__init__", val |-> NoneV, typ |-> <<>>, start |-> 0,
     surface0 |-> <<>>, exc |-> "none", calls |-> <<>>, result |-> NoneV]

\* the byte operations a call completed: a write completes with its set_at,
\* a read with the colour its get_at returned
Completed(who, calls) ==
    Cardinality({i \in 1..Len(calls) :
        IF who = "handle" THEN calls[i].fn = "set_at"
        ELSE calls[i].fn = "get_at" /\ calls[i].color # <<>>})

\* a call of a writing method on handle, hd being the handler as the call leaves it
Write(op, val, hd) ==
    /\ pc = "write"
    /\ nwrites < inputs.maxwrites
    /\ surface' = hd.surface
    /\ handle' = [handle EXCEPT !.next_byte = hd.next_byte]
    /\ last' = LastCall("handle", op, val, <<>>, handle.next_byte, surface, hd, NoneV)
    /\ written' = IF hd.exc = "none"
                  THEN Append(written, [op |-> op, val |-> val,
                                        start |-> handle.next_byte, end |-> hd.next_byte])
                  ELSE written
    /\ ops' = [ops EXCEPT !.handle = @ + Completed("handle", hd.calls)]
    /\ nwrites' = nwrites + 1
    /\ UNCHANGED <<file, img, img_handle, pc, readlog, nreads, inputs>>

\* a call of a reading method on img_handle, r being what the call returns
Read(op, typ, r) ==
    /\ pc = "read"
    /\ nreads < inputs.maxreads
    /\ img' = r.hd.surface
    /\ img_handle' = [img_handle EXCEPT !.next_byte = r.hd.next_byte]
    /\ last' = LastCall("img_handle", op, NoneV, typ, img_handle.next_byte, img, r.hd, r.val)
    /\ readlog' = Append(readlog,
                    [op |-> op, typ |-> typ, start |-> img_handle.next_byte,
                     end |-> r.hd.next_byte, exc |-> r.hd.exc,
                     result |-> IF r.hd.exc = "none" THEN r.val ELSE NoneV])
    /\ ops' = [ops EXCEPT !.img_handle = @ + Completed("img_handle", r.hd.calls)]
    /\ nreads' = nreads + 1
    /\ UNCHANGED <<surface, handle, file, pc, written, nwrites, inputs>>

\* save_file: pygame.image.save writes the pixels of the surface to the file
SaveFile ==
    /\ pc = "write"
    /\ file' = surface
    /\ pc' = "saved"
    /\ UNCHANGED <<surface, handle, img, img_handle, last, written, readlog, ops,
                   nwrites, nreads, inputs>>

\* img = pygame.image.load(file); img_handle = ImgHandler(img)
LoadImage ==
    /\ pc = "saved"
    /\ img' = file
    /\ img_handle' = ImgHandler(file)
    /\ pc' = "read"
    /\ UNCHANGED <<surface, handle, file, last, written, readlog, ops,
                   nwrites, nreads, inputs>>

WriteNextByte ==
    \E b \in inputs.bytes :
        Write("write_next_byte", ByteV(b), write_next_byte(Enter(handle, surface), b))

WriteNextI32 ==
    \E val \in inputs.i32s :
        Write("write_next_i32", IntV(val), write_next_i32(Enter(handle, surface), val))

WriteNextI64 ==
    \E val \in inputs.i64s :
        Write("write_next_i64", IntV(val), write_next_i64(Enter(handle, surface), val))

WriteNextString ==
    \E val \in inputs.strs :
        Write("write_next_string", StrV(val), write_next_string(Enter(handle, surface), val))

WriteNextObject ==
    \E cls \in inputs.objs :
        Write("write_next_object", cls, write_next_object(Enter(handle, surface), cls))

WriteNext ==
    \E val \in inputs.vals :
        Write("write_next", val, write_next(Enter(handle, surface), val))

WriteNextList ==
    \E val \in inputs.lists :
        Write("write_next_list", ListV(val), write_next_list(Enter(handle, surface), val))

ReadNextByte ==
    /\ "read_next_byte" \in inputs.methods
    /\ Read("read_next_byte", <<>>, ByteRet(read_next_byte(Enter(img_handle, img))))

ReadNextI32 ==
    /\ "read_next_i32" \in inputs.methods
    /\ Read("read_next_i32", <<>>, IntRet(read_next_i32(Enter(img_handle, img))))

ReadNextI64 ==
    /\ "read_next_i64" \in inputs.methods
    /\ Read("read_next_i64", <<>>, IntRet(read_next_i64(Enter(img_handle, img))))

ReadNextString ==
    /\ "read_next_string" \in inputs.methods
    /\ Read("read_next_string", <<>>, StrRet(read_next_string(Enter(img_handle, img))))

ReadNextObject ==
    /\ "read_next_object" \in inputs.methods
    /\ Read("read_next_object", PlayerT, read_next_object(Enter(img_handle, img), PlayerT))

ReadNext ==
    \E typ \in inputs.types :
        Read("read_next", typ, read_next(Enter(img_handle, img), typ))

ReadNextList ==
    \E inner_typ \in inputs.inner_types :
        Read("read_next_list", inner_typ,
             ListRet(read_next_list(Enter(img_handle, img), inner_typ)))

Next ==
    \/ WriteNextByte
    \/ WriteNextI32
    \/ WriteNextI64
    \/ WriteNextString
    \/ WriteNextObject
    \/ WriteNext
    \/ WriteNextList
    \/ SaveFile
    \/ LoadImage
    \/ ReadNextByte
    \/ ReadNextI32
    \/ ReadNextI64
    \/ ReadNextString
    \/ ReadNextObject
    \/ ReadNext
    \/ ReadNextList

\* the state after the surface is created and filled and the writing handler
\* is constructed on it
Start(app) ==
    /\ inputs = app
    /\ surface = NewSurface(app.w, app.h, app.fill)
    /\ handle = ImgHandler(surface)
    /\ file = <<>>
    /\ img = <<>>
    /\ img_handle = ImgHandler(img)
    /\ pc = "write"
    /\ last = NoCall
    /\ written = <<>>
    /\ readlog = <<>>
    /\ ops = [handle |-> 0, img_handle |-> 0]
    /\ nwrites = 0
    /\ nreads = 0

(***************************************************************************)
(* Applications: the surface an application creates, the data it passes to *)
(* the writing methods, the argument-less reading methods it calls, the    *)
(* types it passes to read_next and read_next_list, and how many calls it  *)
(* makes on each handler.                                                  *)
(***************************************************************************)
MinusOne == PyInt(TRUE, <<1>>)
I32MIN   == PyInt(TRUE, <<128, 0, 0, 0>>)
I64MIN   == PyInt(TRUE, <<128, 0, 0, 0, 0, 0, 0, 0>>)
Over32   == PyInt(FALSE, <<1, 0, 0, 2, 88>>)                   \* 2^32 + 600
Over64   == PyInt(FALSE, <<1, 0, 0, 0, 0, 0, 0, 1, 2>>)        \* 2^64 + 258
Under64  == PyInt(TRUE, <<1, 0, 0, 0, 0, 0, 0, 0, 5>>)         \* -(2^64 + 5)

Hi == <<104, 105>>                                             \* "hi"
Ab == <<97, 98>>                                               \* "ab"

simple_player == Player_Example(FromNat(600), MinusOne, FromNat(48), Ab)
max_player    == Player_Example(Zero, I32MIN, I32MAX, <<>>)

OneTwoThree == <<IntV(One), IntV(FromNat(2)), IntV(FromNat(3))>>

\* bounds on the number of calls each application makes per handler
TinyWrites == 4
TinyReads == 4
IntWrites == 2
IntReads == 2
CompWrites == 1
CompReads == 1
E2EWrites == 3
E2EReads == 3

NoData ==
    [bytes |-> {}, i32s |-> {}, i64s |-> {}, strs |-> {}, lists |-> {}, objs |-> {},
     vals |-> {}, methods |-> {}, types |-> {}, inner_types |-> {}]

App(w, h, fill, maxwrites, maxreads, data) ==
    [w |-> w, h |-> h, fill |-> fill, maxwrites |-> maxwrites, maxreads |-> maxreads,
     bytes |-> data.bytes, i32s |-> data.i32s, i64s |-> data.i64s, strs |-> data.strs,
     lists |-> data.lists, objs |-> data.objs, vals |-> data.vals,
     methods |-> data.methods, types |-> data.types, inner_types |-> data.inner_types]

\* surfaces of one or two pixels, filled to capacity and beyond
TinyData ==
    [NoData EXCEPT !.bytes = {200, 256}, !.i32s = {I32MAX},
                   !.methods = {"read_next_byte", "read_next_i32"}]

TinyApps ==
    {App(d[1], d[2], <<17, 34, 51>>, TinyWrites, TinyReads, TinyData) :
        d \in {<<1, 1>>, <<2, 1>>, <<1, 2>>}}

\* integers at and around the limits of the two widths
IntData ==
    [NoData EXCEPT
        !.i32s = {Zero, FromNat(600), MinusOne, I32MAX, Sub(I32MAX, One), I32MIN, Over32, I64MIN},
        !.i64s = {FromNat(42), MinusOne, I64MAX, Sub(I64MAX, One), I64MIN, I32MAX, Over64, Under64},
        !.methods = {"read_next_i32", "read_next_i64"}]

IntApps ==
    {App(d[1], d[2], <<0, 0, 0>>, IntWrites, IntReads, IntData) : d \in {<<2, 2>>, <<3, 2>>}}

\* strings, lists, objects and their nestings
CompData ==
    [NoData EXCEPT
        !.strs = {<<>>, Hi, <<255>>, <<65, 300>>},
        !.lists = {OneTwoThree},
        !.objs = {simple_player},
        !.vals = {IntV(MinusOne), IntV(I64MAX), StrV(<<>>), StrV(<<0, 255>>),
                  ListV(<<>>), ListV(OneTwoThree), ListV(<<IntV(I64MIN), IntV(I64MAX)>>),
                  ListV(<<StrV(Hi), StrV(<<>>)>>),
                  ListV(<<ListV(<<IntV(FromNat(256))>>), ListV(<<>>)>>),
                  ListV(<<simple_player>>),
                  simple_player, max_player},
        !.methods = {"read_next_string", "read_next_object"},
        !.types = {IntT, StrT, ListT(IntT), ListT(StrT), ListT(ListT(IntT)),
                   ListT(PlayerT), PlayerT},
        !.inner_types = {IntT, PlayerT}]

CompApps ==
    {App(d[1], d[2], <<0, 0, 0>>, CompWrites, CompReads, CompData) : d \in {<<4, 3>>, <<3, 1>>}}

\* the 8x8 surface holding 42, "hi" and [1, 2, 3]
E2EData ==
    [NoData EXCEPT !.i64s = {FromNat(42)}, !.strs = {Hi}, !.lists = {OneTwoThree},
                   !.methods = {"read_next_i64", "read_next_string"},
                   !.inner_types = {IntT}]

E2EApps ==
    {App(8, 8, <<0, 0, 0>>, E2EWrites, E2EReads, E2EData)}

Init == \E app \in TinyApps \cup IntApps \cup CompApps \cup E2EApps : Start(app)

Spec == Init /\ [][Next]_vars


(***************************************************************************)
(* Reference definitions for the properties: the byte layout the           *)
(* specification describes, stated independently of the handler.           *)
(***************************************************************************)
Cap == 3 * inputs.w * inputs.h

\* the byte at linear index n of a surface of width w: three bytes per pixel,
\* row-major
ByteAt(surf, w, n) == surf[<<(n \div 3) % w, (n \div 3) \div w>>][(n % 3) + 1]

Pad(mag, n) == [i \in 1..n |-> Digit(mag, n - i)]
Pow256(n) == PyInt(FALSE, <<1>> \o [i \in 1..n |-> 0])

\* the n-byte big-endian two's complement form of the low 8n bits of v
TwosBytes(v, n) ==
    IF ~v.neg \/ Strip(Pad(v.mag, n)) = <<>> THEN Pad(v.mag, n)
    ELSE Pad(Sub(Pow256(n), PyInt(FALSE, Pad(v.mag, n))).mag, n)

InI32(v) == GE(v, I32MIN) /\ GE(I32MAX, v)
InI64(v) == GE(v, I64MIN) /\ GE(I64MAX, v)

RECURSIVE Flatten(_)
Flatten(seqs) == IF seqs = <<>> THEN <<>> ELSE Head(seqs) \o Flatten(Tail(seqs))

EncodeStr(s) == TwosBytes(FromNat(Len(s)), 8) \o s

RECURSIVE Encode(_)
Encode(val) ==
    IF val.k = "int" THEN TwosBytes(val.v, 8)
    ELSE IF val.k = "str" THEN EncodeStr(val.v)
    ELSE IF val.k = "list"
         THEN TwosBytes(FromNat(Len(val.v)), 8)
              \o Flatten([i \in 1..Len(val.v) |-> Encode(val.v[i])])
    ELSE TwosBytes(val.v.x, 4) \o TwosBytes(val.v.y, 4) \o TwosBytes(val.v.health, 4)
         \o EncodeStr(val.v.name)

\* the bytes a writing call is to produce
EncodeCall(op, val) ==
    IF op = "write_next_byte" THEN <<val.v>>
    ELSE IF op = "write_next_i32" THEN TwosBytes(val.v, 4)
    ELSE Encode(val)

Latin1(s) == \A i \in 1..Len(s) : s[i] \in 0..255

\* the values the codec supports, and the declared type a value is read with
RECURSIVE Supported(_)
Supported(val) ==
    IF val.k = "int" THEN InI64(val.v)
    ELSE IF val.k = "str" THEN Latin1(val.v)
    ELSE IF val.k = "list" THEN \A i \in 1..Len(val.v) : Supported(val.v[i])
    ELSE InI32(val.v.x) /\ InI32(val.v.y) /\ InI32(val.v.health) /\ Latin1(val.v.name)

RECURSIVE HasType(_, _)
HasType(val, typ) ==
    IF typ = IntT THEN val.k = "int"
    ELSE IF typ = StrT THEN val.k = "str"
    ELSE IF typ = PlayerT THEN val.k = "Player_Example"
    ELSE val.k = "list" /\ \A i \in 1..Len(val.v) : HasType(val.v[i], typ[2])

Cursor(who) == IF who = "handle" THEN handle.next_byte ELSE img_handle.next_byte
Pixels(who) == IF who = "handle" THEN surface ELSE img

\* C1: for N in {32, 64} and every v in the signed N-bit range, the minimum and
\* the maximum included, write_next_iN(v) on a cursor at position 0 followed by
\* read_next_iN on a fresh cursor over the same pixels returns exactly v.
C1_IntRoundTrip ==
    \A i \in 1..Len(written) :
        LET e == written[i] IN
        /\ (/\ e.op = "write_next_i32" /\ e.start = 0 /\ InI32(e.val.v)
            /\ last.op = "read_next_i32" /\ last.start = 0)
           => (last.exc = "none" /\ last.result = e.val)
        /\ (/\ e.op = "write_next_i64" /\ e.start = 0 /\ InI64(e.val.v)
            /\ last.op = "read_next_i64" /\ last.start = 0)
           => (last.exc = "none" /\ last.result = e.val)

\* C2: round-trip law: for any supported value v of declared type T,
\* write_next(v) followed by read_next(T) on a fresh cursor over the same
\* pixels returns a value equal to v, list elements in their original order,
\* provided the encoding fits the surface.
C2_RoundTrip ==
    \A i \in 1..Len(written) :
        LET e == written[i] IN
        (/\ e.op = "write_next" /\ e.start = 0 /\ Supported(e.val)
         /\ last.op = "read_next" /\ last.start = 0 /\ HasType(e.val, last.typ))
        => (last.exc = "none" /\ last.result = e.val)


\* the handler of the last call as it was when the call started
Before == Enter([next_byte |-> last.start, w |-> inputs.w, h |-> inputs.h], last.surface0)

\* the number of byte operations completed by the first i surface calls of the last call
CompletedBy(i) == Completed(last.who, SubSeq(last.calls, 1, i))

\* C3: capacity boundary: on a W x H surface a cursor starting at 0 completes
\* exactly W*H*3 byte operations; the next write_next_byte, and likewise the next
\* read_next_byte, fails with an out-of-bounds error (the surface's IndexError),
\* does not wrap around to an earlier pixel and leaves every pixel unchanged.
C3_Capacity ==
    /\ handle.next_byte <= Cap /\ ops.handle <= Cap
    /\ pc = "read" => (img_handle.next_byte <= Cap /\ ops.img_handle <= Cap)
    /\ (last.op = "write_next_byte" /\ last.start < Cap /\ ChannelOK(last.val.v))
       => (last.exc = "none" /\ handle.next_byte = last.start + 1)
    /\ (last.op = "read_next_byte" /\ last.start < Cap)
       => (last.exc = "none" /\ img_handle.next_byte = last.start + 1)
    /\ (last.op \in {"write_next_byte", "read_next_byte"} /\ last.start = Cap)
       => /\ last.exc = "IndexError"
          /\ Pixels(last.who) = last.surface0
          /\ Cursor(last.who) = Cap
          /\ Len(last.calls) = 1
          /\ last.calls[1].fn = "get_at"
          /\ last.calls[1].pos \notin DOMAIN last.surface0

\* exactly W*H*3 write_next_byte calls completed and the next one was made
C3_Witness ==
    /\ last.op = "write_next_byte" /\ last.start = Cap /\ last.exc = "IndexError"
    /\ Len(written) = Cap
    /\ \A i \in 1..Len(written) : written[i].op = "write_next_byte"
    /\ nwrites = Cap + 1

\* C4: byte-to-coordinate mapping: the n-th byte operation of a cursor (n from
\* 0, reads and writes alike) accesses channel n mod 3 of pixel (x, y) with
\* x = (n div 3) mod W and y = (n div 3) div W; each successful write_next_byte
\* or read_next_byte increases next_byte by exactly 1; next_byte starts at 0,
\* never decreases and is never reset.
C4_Mapping ==
    /\ handle.next_byte = ops.handle
    /\ img_handle.next_byte = ops.img_handle
    /\ last.who # "none" =>
        /\ last.start <= Cursor(last.who)
        /\ Cursor(last.who) = last.start + CompletedBy(Len(last.calls))
        /\ \A i \in 1..Len(last.calls) :
              LET n == last.start + CompletedBy(i - 1) IN
              /\ last.calls[i].ch = n % 3
              /\ last.calls[i].pos = <<(n \div 3) % inputs.w, (n \div 3) \div inputs.w>>
    /\ (last.op \in {"write_next_byte", "read_next_byte"} /\ last.exc = "none")
       => Cursor(last.who) = last.start + 1

\* a call whose bytes run over the end of a row of a 3 x 2 surface
C4_Witness ==
    /\ inputs.w = 3 /\ inputs.h = 2
    /\ last.who = "handle"
    /\ \E i \in 1..Len(last.calls) : last.calls[i].pos = <<2, 0>>
    /\ \E i \in 1..Len(last.calls) : last.calls[i].fn = "set_at" /\ last.calls[i].pos = <<1, 1>>

\* C5: pixel isolation: a successful write_next_byte(b) at byte index n changes
\* only channel n mod 3 of the resolved pixel to b; the other two channels of
\* that pixel and every other pixel keep their values; reads change no pixel.
C5_PixelIsolation ==
    /\ (last.op = "write_next_byte" /\ last.exc = "none") =>
          LET n == last.start
              pos == <<(n \div 3) % inputs.w, (n \div 3) \div inputs.w>>
          IN  surface = [q \in DOMAIN last.surface0 |->
                            IF q = pos
                            THEN [c \in 1..3 |-> IF c = (n % 3) + 1 THEN last.val.v
                                                 ELSE last.surface0[q][c]]
                            ELSE last.surface0[q]]
    /\ last.who = "img_handle" => (img = last.surface0 /\ img = file)
    /\ pc # "write" => surface = file

\* the middle channel of a pixel is written and its neighbours keep the fill
C5_Witness ==
    /\ last.op = "write_next_byte" /\ last.exc = "none" /\ last.start = 4
    /\ inputs.fill = <<17, 34, 51>> /\ inputs.w = 2
    /\ last.surface0[<<1, 0>>] = <<255, 34, 51>>
    /\ surface[<<1, 0>>] = <<255, 200, 51>>

\* C6: integer wire layout: write_next_iN(v), N in {32, 64}, started at byte
\* index p stores at index p+k (k = 0..N/8-1) byte k of the big-endian two's
\* complement form of v, most significant byte at the lowest index, and
\* advances next_byte by exactly N/8; of a v outside the signed N-bit range
\* only the low N bits are stored.
C6_WireLayout ==
    (last.op \in {"write_next_i32", "write_next_i64"} /\ last.exc = "none") =>
        LET size == IF last.op = "write_next_i32" THEN 4 ELSE 8 IN
        /\ handle.next_byte = last.start + size
        /\ \A k \in 0..(size - 1) :
              ByteAt(surface, inputs.w, last.start + k) = TwosBytes(last.val.v, size)[k + 1]
        /\ \A n \in 0..(Cap - 1) :
              (n < last.start \/ n >= last.start + size)
              => ByteAt(surface, inputs.w, n) = ByteAt(last.surface0, inputs.w, n)

\* a negative value was written in 32 bits after an out-of-range 64-bit write
C6_Witness ==
    /\ last.op = "write_next_i32" /\ last.exc = "none" /\ last.val = IntV(I32MIN)
    /\ last.start = 8
    /\ written[1].val = IntV(Over64)


\* the three writes and the three reads of the scenario, the list ending at
\* byte index total
E2EWritten(total) ==
    << [op |-> "write_next_i64", val |-> IntV(FromNat(42)), start |-> 0, end |-> 8],
       [op |-> "write_next_string", val |-> StrV(Hi), start |-> 8, end |-> 18],
       [op |-> "write_next_list", val |-> ListV(OneTwoThree), start |-> 18, end |-> total] >>

E2ERead(total) ==
    << [op |-> "read_next_i64", typ |-> <<>>, start |-> 0, end |-> 8, exc |-> "none",
        result |-> IntV(FromNat(42))],
       [op |-> "read_next_string", typ |-> <<>>, start |-> 8, end |-> 18, exc |-> "none",
        result |-> StrV(Hi)],
       [op |-> "read_next_list", typ |-> IntT, start |-> 18, end |-> total, exc |-> "none",
        result |-> ListV(OneTwoThree)] >>

\* the calls made on handle were the three writes of the scenario, in order
WroteE2E ==
    /\ inputs.w = 8 /\ inputs.h = 8
    /\ nwrites = 3 /\ Len(written) = 3
    /\ \A i \in 1..3 : /\ written[i].op = E2EWritten(0)[i].op
                       /\ written[i].val = E2EWritten(0)[i].val

\* the first i calls made on img_handle were the first i reads of the scenario
ReadE2E(i) ==
    /\ i <= Len(readlog)
    /\ \A j \in 1..i : /\ readlog[j].op = E2ERead(0)[j].op
                       /\ readlog[j].typ = E2ERead(0)[j].typ

EndToEnd(total) ==
    WroteE2E =>
        /\ written = E2EWritten(total)
        /\ handle.next_byte = total
        /\ \A i \in 1..3 : ReadE2E(i) => readlog[i] = E2ERead(total)[i]
        /\ (ReadE2E(3) /\ nreads = 3) => img_handle.next_byte = total

\* C7 as stated: end-to-end scenario: on an 8x8 surface, writing the 64-bit
\* integer 42, the string "hi" and the list [1, 2, 3], then reading back in the
\* same order with a fresh cursor, yields 42, "hi", [1, 2, 3]; the write cursor
\* and the read cursor both end at 8 + 10 + 27 = 45 bytes.
C7_EndToEnd_45 == EndToEnd(45)

\* C7 amended: the same scenario yields 42, "hi", [1, 2, 3], and both cursors
\* end at 8 + 10 + 32 = 50 bytes: the list takes its 8-byte length and three
\* 8-byte integers.
C7_EndToEnd == EndToEnd(50)

\* the three writes and the three reads of the scenario were made
C7_Witness ==
    /\ WroteE2E /\ ReadE2E(3) /\ nreads = 3
    /\ readlog[3].result = ListV(OneTwoThree)
    /\ img_handle.next_byte = handle.next_byte

\* C8: string code-point range: write_next_string(s) writes len(s) as a 64-bit
\* prefix and then one byte per character; for a string with a code point of
\* 256 or above it either fails or stores the code point truncated to its low
\* 8 bits, so that no value outside 0..255 is handed to the surface as a
\* channel value; a code point of 255 and the empty string round-trip exactly.
C8_String ==
    /\ \A q \in DOMAIN surface : \A c \in 1..3 : surface[q][c] \in 0..255
    /\ \A i \in 1..Len(last.calls) :
          \A c \in 1..Len(last.calls[i].color) : last.calls[i].color[c] \in 0..255
    /\ last.op = "write_next_string" =>
          LET s == last.val.v IN
          /\ last.exc = "none" =>
                /\ handle.next_byte = last.start + 8 + Len(s)
                /\ \A k \in 0..7 : ByteAt(surface, inputs.w, last.start + k)
                                       = TwosBytes(FromNat(Len(s)), 8)[k + 1]
          /\ \/ last.exc # "none"
             \/ \A k \in 1..Len(s) :
                    ByteAt(surface, inputs.w, last.start + 7 + k) = s[k] % 256
          /\ (last.exc = "ValueError") => ~Latin1(s)
    /\ \A i \in 1..Len(written) :
          (/\ written[i].op = "write_next_string" /\ written[i].start = 0
           /\ last.op = "read_next_string" /\ last.start = 0)
          => (last.exc = "none" /\ last.result = written[i].val)

\* a string with the code point 300 was written: the prefix and the first
\* character are on the surface and the call failed
C8_Witness ==
    /\ last.op = "write_next_string" /\ last.val = StrV(<<65, 300>>)
    /\ last.exc = "ValueError"
    /\ handle.next_byte = last.start + 9
    /\ ByteAt(surface, inputs.w, last.start + 8) = 65

\* C9: generic dispatch equivalence: from the same cursor position and pixels,
\* write_next(v) gives the same pixels and final next_byte as write_next_i64,
\* write_next_string, write_next_list or v's img_serialize, by the kind of v,
\* and read_next(T) the same value and final next_byte as read_next_i64,
\* read_next_string, read_next_list(E) or T.img_deserialize, by T; the generic
\* path never uses the 32-bit width.
SameWrite(hd) ==
    surface = hd.surface /\ handle.next_byte = hd.next_byte /\ last.exc = hd.exc

SameRead(r) ==
    /\ img = r.hd.surface /\ img_handle.next_byte = r.hd.next_byte /\ last.exc = r.hd.exc
    /\ last.exc = "none" => last.result = r.val

C9_Dispatch ==
    /\ last.op = "write_next" =>
          /\ last.val.k = "int" => SameWrite(write_next_i64(Before, last.val.v))
          /\ last.val.k = "str" => SameWrite(write_next_string(Before, last.val.v))
          /\ last.val.k = "list" => SameWrite(write_next_list(Before, last.val.v))
          /\ last.val.k = "Player_Example" => SameWrite(img_serialize(last.val, Before))
          /\ (last.val.k = "int" /\ last.exc = "none") => handle.next_byte = last.start + 8
    /\ last.op = "read_next" =>
          /\ last.typ = IntT => SameRead(IntRet(read_next_i64(Before)))
          /\ last.typ = StrT => SameRead(StrRet(read_next_string(Before)))
          /\ last.typ[1] = "list" => SameRead(ListRet(read_next_list(Before, last.typ[2])))
          /\ last.typ = PlayerT => SameRead(img_deserialize(Before))
          /\ (last.typ = IntT /\ last.exc = "none") => img_handle.next_byte = last.start + 8

\* an integer written by write_next was read back by read_next(int)
C9_Witness ==
    /\ last.op = "read_next" /\ last.typ = IntT /\ last.exc = "none"
    /\ Len(written) = 1 /\ written[1].op = "write_next" /\ written[1].val = IntV(MinusOne)
    /\ last.result = IntV(MinusOne)

\* C10: no rollback: when a writing call is started with k bytes of capacity
\* left and needs more than k, the first k bytes of what it writes are on the
\* surface and next_byte has advanced by k when the out-of-bounds error is
\* raised; neither is restored, and the failing byte operation itself leaves
\* next_byte and the surface unchanged.
C10_NoRollback ==
    (last.who = "handle" /\ last.exc = "IndexError") =>
        LET k == Cap - last.start
            enc == EncodeCall(last.op, last.val)
        IN  /\ Len(enc) > k
            /\ handle.next_byte = last.start + k
            /\ \A j \in 0..(k - 1) : ByteAt(surface, inputs.w, last.start + j) = enc[j + 1]
            /\ \A n \in 0..(last.start - 1) :
                  ByteAt(surface, inputs.w, n) = ByteAt(last.surface0, inputs.w, n)
            /\ CompletedBy(Len(last.calls)) = k
            /\ last.calls[Len(last.calls)].fn = "get_at"
            /\ last.calls[Len(last.calls)].pos \notin DOMAIN surface

\* a 64-bit write started with four bytes left
C10_Witness ==
    /\ last.op = "write_next_i64" /\ last.exc = "IndexError"
    /\ Cap - last.start = 4
    /\ handle.next_byte = Cap
    /\ surface # last.surface0

====
